---- MODULE Spec2Model ----
(***************************************************************************)
(* add_files_to_xcode.py: the manifest patcher.                            *)
(*                                                                         *)
(* The manifest (project.pbxproj) is modelled as the sequence of its       *)
(* lexical pieces ("tokens"): every character of the text belongs to       *)
(* exactly one token, a token carries the name it mentions (a file name, a *)
(* group name) and its length in characters, and every offset the program  *)
(* computes falls on a token boundary.  Names are sequences of chunks so    *)
(* that Python's substring test (`filename in content`) is computed, not   *)
(* assumed.                                                                *)
(***************************************************************************)
EXTENDS Integers, Sequences, FiniteSets, TLC

VARIABLES
    file,          \* text of PROJECT_FILE on disk
    backup,        \* text of PROJECT_FILE + '.backup2' on disk, NoFile if absent
    NEW_FILES,     \* the candidate list: sequence of <<filename, group_name>>
    pc,            \* position of the running add_files(), "done" once it returned
    content,       \* add_files' local buffer
    files_to_add,  \* add_files' local list of surviving candidates
    file_refs,     \* filename -> file-reference identifier
    build_refs,    \* filename -> build-action identifier
    gi,            \* index of the step-3 loop over files_to_add
    out,           \* lines printed by the current run
    uuids,         \* values returned by generate_uuid in the current run, in call order
    nextId,        \* identifiers in existence so far are 1..nextId
    runs,          \* number of runs of add_files started
    entropy,       \* the random source: "distinct" if no two of its draws coincide, else "any"
    query,         \* locator alone: the group name asked for
    found,         \* locator alone: the offset returned, -1 before the call
    orig,          \* history: text of PROJECT_FILE when the current run began
    backup0        \* history: backup file when the current run began

vars == <<file, backup, NEW_FILES, pc, content, files_to_add, file_refs,
          build_refs, gi, out, uuids, nextId, runs, entropy, query, found, orig, backup0>>

\* what no step of add_files changes
fixed == <<NEW_FILES, entropy, query, found>>

(* ------------------------------ bounds --------------------------------- *)
MaxGroups == 2     \* most group blocks in a starting manifest
MaxRuns == 2       \* runs of the tool in one behaviour

(* ------------------------- program constants --------------------------- *)
Window == 2000     \* characters searched before the path declaration
IdLen == 24        \* characters of an identifier

NoFile == <<[k |-> "nofile", f |-> <<>>, a |-> 0, b |-> 0]>>
NoName == <<>>

(* ------------------------------ tokens --------------------------------- *)
Tok(k, f, a, b) == [k |-> k, f |-> f, a |-> a, b |-> b]

\* "/* Begin PBXBuildFile section */"
BuildFileSection == Tok("BuildFileSection", NoName, 0, 0)
\* "/* Begin PBXFileReference section */"
FileRefSection == Tok("FileRefSection", NoName, 0, 0)
\* "<bid> /* <fn> in Sources */ = {isa = PBXBuildFile; fileRef = <fid> /* <fn> */; };"
BuildFileEntry(bid, fn, fid) == Tok("BuildFile", fn, bid, fid)
\* "<fid> /* <fn> */ = {isa = PBXFileReference; ...; path = <fn>; sourceTree = "<group>"; };"
FileRefEntry(fid, fn) == Tok("FileRef", fn, fid, 0)
\* "\n\t\t\t\t<fid> /* <fn> */,"
GroupChildEntry(fid, fn) == Tok("Child", fn, fid, 0)
\* "\n\t\t\t\t<bid> /* <fn> in Sources */,"
SourcesEntry(bid, fn) == Tok("PhaseEntry", fn, bid, 0)
\* "<24 word characters> /* <name> */ = {"
BlockHead(name) == Tok("Head", name, 0, 0)
\* "isa = <kind>;"
Isa(kind) == Tok("Isa", <<kind>>, 0, 0)
\* "children = ("
ChildrenOpen == Tok("ChildrenOpen", NoName, 0, 0)
\* "files = ("
FilesOpen == Tok("FilesOpen", NoName, 0, 0)
\* ");"
ListClose == Tok("ListClose", NoName, 0, 0)
\* "path = <name>;" followed by white space and "sourceTree"
PathDecl(name) == Tok("Path", name, 0, 0)
\* "};" closing a block
BlockEnd == Tok("BlockEnd", NoName, 0, 0)
\* n characters of other text: matched by no pattern, naming no candidate, no "}"
Blob(n) == Tok("Blob", NoName, n, 0)

(* ------------------------------ text ----------------------------------- *)
\* Python's `x in y` on strings, on names
IsSubstring(x, y) ==
    \E i \in 0..(Len(y) - Len(x)) : \A j \in 1..Len(x) : y[i + j] = x[j]

\* `filename in content`: every name a token mentions is part of its text
FilenameInContent(filename, c) ==
    \E i \in 1..Len(c) : IsSubstring(filename, c[i].f)

\* the white space in front of a token's text
Lead(t) ==
    CASE t.k \in {"Child", "PhaseEntry"} -> 5
      [] t.k \in {"BuildFile", "FileRef", "Head", "BlockEnd"} -> 3
      [] t.k \in {"BuildFileSection", "FileRefSection"} -> 1
      [] t.k = "Blob" -> 0
      [] OTHER -> 4

\* characters of a token, its leading white space included; the four entries the
\* program writes are counted from their format strings
TokLen(t) ==
    CASE t.k = "BuildFile" -> 66 + 2 * IdLen + 2 * Len(t.f)
      [] t.k = "FileRef" -> 111 + IdLen + 2 * Len(t.f)
      [] t.k = "Child" -> 13 + IdLen + Len(t.f)
      [] t.k = "PhaseEntry" -> 24 + IdLen + Len(t.f)
      [] t.k = "BuildFileSection" -> 1 + 32
      [] t.k = "FileRefSection" -> 1 + 36
      [] t.k = "Head" -> 3 + IdLen + 11 + Len(t.f)
      [] t.k = "Isa" -> 4 + 15
      [] t.k = "ChildrenOpen" -> 4 + 12
      [] t.k = "FilesOpen" -> 4 + 9
      [] t.k = "ListClose" -> 4 + 2
      [] t.k = "Path" -> 4 + 32 + Len(t.f)
      [] t.k = "BlockEnd" -> 3 + 2
      [] t.k = "Blob" -> t.a
      [] OTHER -> 0

RECURSIVE TextLen(_)
TextLen(c) == IF c = <<>> THEN 0 ELSE TokLen(Head(c)) + TextLen(Tail(c))

\* offset of the first character of token i's text
StartOf(c, i) == TextLen(SubSeq(c, 1, i - 1)) + Lead(c[i])

Max(a, b) == IF a >= b THEN a ELSE b
MinOf(S) == CHOOSE x \in S : \A y \in S : x <= y
MaxOf(S) == CHOOSE x \in S : \A y \in S : x >= y

\* a faulty variant of Splice: the splice resumes one token late, content[pos + 1:]
SpliceOver(c, pos, new) == SubSeq(c, 1, pos) \o new \o SubSeq(c, pos + 2, Len(c))

\* content[:pos] + new + content[pos:], pos counted in tokens
Splice(c, pos, new) == SubSeq(c, 1, pos) \o new \o SubSeq(c, pos + 1, Len(c))

\* content.replace(marker, marker + entries): every occurrence
RECURSIVE ReplaceAfter(_, _, _)
ReplaceAfter(c, marker, entries) ==
    IF c = <<>> THEN <<>>
    ELSE (IF Head(c) = marker THEN <<marker>> \o entries ELSE <<Head(c)>>)
         \o ReplaceAfter(Tail(c), marker, entries)

(* ------------------- find_group_children_location ---------------------- *)
\* re.search(group_pattern, content): the block head naming the group, then
\* (white space only) "isa = PBXGroup;", then (white space only) "children = ("
DirectMatches(c, group_name) ==
    {i \in 1..(Len(c) - 2) : /\ c[i] = BlockHead(group_name)
                             /\ c[i + 1] = Isa("PBXGroup")
                             /\ c[i + 2] = ChildrenOpen}

\* re.search(path_pattern, content): "path = <group_name>;\s*sourceTree", which a
\* group's path declaration and a file-reference record's path field both spell
PathMatches(c, group_name) ==
    {j \in 1..Len(c) : c[j].k \in {"Path", "FileRef"} /\ c[j].f = group_name}

\* re.finditer(children_pattern, content[search_start:path_match.start()])
ChildrenMatchesBefore(c, j) ==
    LET search_start == Max(0, StartOf(c, j) - Window)
    IN  {m \in 1..(j - 1) : c[m] = ChildrenOpen /\ StartOf(c, m) >= search_start}

\* a faulty variant of LastChildrenMatch: children_matches[0]
FirstChildrenMatch(S) == MinOf(S)

\* children_matches[-1]
LastChildrenMatch(S) == MaxOf(S)

\* The offset returned, in tokens (the text up to and including "children = (");
\* 0 stands for None: an offset the code returns is never 0.
find_group_children_location(c, group_name) ==
    IF DirectMatches(c, group_name) # {}
    THEN MinOf(DirectMatches(c, group_name)) + 2
    ELSE IF PathMatches(c, group_name) # {}
         THEN LET j == MinOf(PathMatches(c, group_name))
                  children_matches == ChildrenMatchesBefore(c, j)
              IN  IF children_matches # {} THEN LastChildrenMatch(children_matches)
                                           ELSE 0
         ELSE 0

(* --------------------------- sources_pattern --------------------------- *)
\* a token whose text holds a "}"
HasCloseBrace(t) == t.k \in {"BlockEnd", "BuildFile", "FileRef"}

\* ends of the matches of sources_pattern that start at block head i
SourcesEnds(c, i) ==
    {e \in (i + 1)..Len(c) :
        /\ c[e] = FilesOpen
        /\ \A x \in (i + 1)..(e - 1) : ~HasCloseBrace(c[x])
        /\ \E x \in (i + 1)..(e - 1) : c[x] = Isa("PBXSourcesBuildPhase")}

\* a faulty variant of SourcesMatchEnd: the pattern reduced to "files = \("
AnyFilesOpen(c) ==
    LET opens == {i \in 1..Len(c) : c[i] = FilesOpen}
    IN  IF opens = {} THEN 0 ELSE MinOf(opens)

\* re.search(sources_pattern, content).end(), 0 for no match: the leftmost
\* start, and from it the longest match (both [^}]* are greedy)
SourcesMatchEnd(c) ==
    LET starts == {i \in 1..Len(c) : c[i] = BlockHead(<<"Sources">>)
                                     /\ SourcesEnds(c, i) # {}}
    IN  IF starts = {} THEN 0 ELSE MaxOf(SourcesEnds(c, MinOf(starts)))

(* ------------------------------ output --------------------------------- *)
\* a printed line: its text, the file and group it names, the count it gives
Line(m, f, g, n) == [m |-> m, f |-> f, g |-> g, n |-> n]

\* f(s[1]), ..., f(s[n])
MapSeq(s, F(_)) == [i \in 1..Len(s) |-> F(s[i])]

(* ------------------------------ add_files ------------------------------ *)
\* a faulty variant of AlreadyIn: only file-reference records are looked at
AlreadyInFileRefs(c, cand) ==
    \E i \in 1..Len(c) : c[i].k = "FileRef" /\ IsSubstring(cand[1], c[i].f)

\* line 91
AlreadyIn(c, cand) == FilenameInContent(cand[1], c)
SkipLine(cand) == Line("already in project, skipping", cand[1], NoName, 0)

\* lines 86-98: read_project, the idempotency filter, the early return
ReadAndFilter ==
    /\ pc \in {"idle", "done"}
    /\ runs < MaxRuns
    /\ LET c == file
           survivors == SelectSeq(NEW_FILES, LAMBDA cand : ~AlreadyIn(c, cand))
           skipped == SelectSeq(NEW_FILES, LAMBDA cand : AlreadyIn(c, cand))
       IN  /\ content' = c
           /\ files_to_add' = survivors
           /\ IF survivors = <<>>
              THEN /\ out' = MapSeq(skipped, SkipLine)
                             \o <<Line("All files already in project!", NoName, NoName, 0)>>
                   /\ pc' = "done"
              ELSE /\ out' = MapSeq(skipped, SkipLine)
                   /\ pc' = "uuids"
    /\ runs' = runs + 1
    /\ orig' = file
    /\ backup0' = backup
    /\ file_refs' = <<>>
    /\ build_refs' = <<>>
    /\ uuids' = <<>>
    /\ gi' = 1
    /\ UNCHANGED <<file, backup, fixed, nextId>>

\* generate_uuid: 96 random bits.  Identifiers are opaque, so a returned value
\* is either one an earlier call of this run returned or a value not seen yet.
DrawSeqs(n) ==
    {d \in [1..n -> 1..n] :
        \A i \in 1..n : d[i] <= 1 + (IF i = 1 THEN 0 ELSE MaxOf({d[x] : x \in 1..(i - 1)}))}

\* the names of files_to_add
Names(cands) == {cands[i][1] : i \in 1..Len(cands)}
\* the last position of a name: a later dict assignment overwrites an earlier one
LastIndex(cands, fn) == MaxOf({i \in 1..Len(cands) : cands[i][1] = fn})

\* a faulty variant of BuildRefDraw: build_refs[filename] = file_refs[filename]
SameDraw(i) == 2 * i - 1

\* which call of generate_uuid gives the i-th candidate's identifiers (lines 105, 106)
FileRefDraw(i) == 2 * i - 1
BuildRefDraw(i) == 2 * i

\* lines 100-106: two generate_uuid calls per surviving candidate
GenerateUuids ==
    /\ pc = "uuids"
    /\ \E d \in DrawSeqs(2 * Len(files_to_add)) :
         /\ entropy = "distinct" => \A i \in DOMAIN d : d[i] = i
         /\ LET ids == [i \in 1..(2 * Len(files_to_add)) |-> nextId + d[i]]
            IN  /\ uuids' = ids
                /\ file_refs' = [fn \in Names(files_to_add) |->
                                   ids[FileRefDraw(LastIndex(files_to_add, fn))]]
                /\ build_refs' = [fn \in Names(files_to_add) |->
                                   ids[BuildRefDraw(LastIndex(files_to_add, fn))]]
                /\ nextId' = nextId + MaxOf({d[i] : i \in 1..(2 * Len(files_to_add))})
    /\ pc' = "buildfile"
    /\ UNCHANGED <<file, backup, fixed, content, files_to_add, gi, out, runs,
                   orig, backup0>>

\* lines 111-113
build_file_entries ==
    [i \in 1..Len(files_to_add) |->
        BuildFileEntry(build_refs[files_to_add[i][1]], files_to_add[i][1],
                       file_refs[files_to_add[i][1]])]

\* lines 108-119
AddBuildFileEntries ==
    /\ pc = "buildfile"
    /\ content' = ReplaceAfter(content, BuildFileSection, build_file_entries)
    /\ out' = Append(out, Line("Added PBXBuildFile entries", NoName, NoName, 0))
    /\ pc' = "fileref"
    /\ UNCHANGED <<file, backup, fixed, files_to_add, file_refs, build_refs, gi,
                   uuids, nextId, runs, orig, backup0>>

\* lines 124-126
file_ref_entries ==
    [i \in 1..Len(files_to_add) |->
        FileRefEntry(file_refs[files_to_add[i][1]], files_to_add[i][1])]

\* lines 121-132
AddFileRefEntries ==
    /\ pc = "fileref"
    /\ content' = ReplaceAfter(content, FileRefSection, file_ref_entries)
    /\ out' = Append(out, Line("Added PBXFileReference entries", NoName, NoName, 0))
    /\ pc' = "group"
    /\ UNCHANGED <<file, backup, fixed, files_to_add, file_refs, build_refs, gi,
                   uuids, nextId, runs, orig, backup0>>

\* lines 135-142, one iteration of the loop
AddToGroup ==
    /\ pc = "group"
    /\ LET filename == files_to_add[gi][1]
           group == files_to_add[gi][2]
           insert_pos == find_group_children_location(content, group)
       IN  IF insert_pos # 0
           THEN /\ content' = Splice(content, insert_pos,
                                     <<GroupChildEntry(file_refs[filename], filename)>>)
                /\ out' = Append(out, Line("Added to group", filename, group, 0))
           ELSE /\ content' = content
                /\ out' = Append(out, Line("Could not find group", filename, group, 0))
    /\ gi' = gi + 1
    /\ pc' = IF gi = Len(files_to_add) THEN "sources" ELSE "group"
    /\ UNCHANGED <<file, backup, fixed, files_to_add, file_refs, build_refs,
                   uuids, nextId, runs, orig, backup0>>

\* lines 151-153
new_entries ==
    [i \in 1..Len(files_to_add) |->
        SourcesEntry(build_refs[files_to_add[i][1]], files_to_add[i][1])]

\* lines 144-157
AddToSources ==
    /\ pc = "sources"
    /\ LET insert_pos == SourcesMatchEnd(content)
       IN  IF insert_pos # 0
           THEN /\ content' = Splice(content, insert_pos, new_entries)
                /\ out' = Append(out, Line("Added files to Sources build phase",
                                           NoName, NoName, Len(files_to_add)))
           ELSE /\ content' = content
                /\ out' = Append(out, Line("Could not find Sources build phase",
                                           NoName, NoName, 0))
    /\ pc' = "write"
    /\ UNCHANGED <<file, backup, fixed, files_to_add, file_refs, build_refs, gi,
                   uuids, nextId, runs, orig, backup0>>

\* a faulty variant of original: the backup is taken of the patched text
patched == content

\* lines 39-40: write_project reads PROJECT_FILE again
original == file

\* lines 159-160 and write_project, lines 36-46
WriteProject ==
    /\ pc = "write"
    /\ backup' = original
    /\ file' = content
    /\ out' = out \o <<Line("Wrote updated project file", NoName, NoName, 0),
                       Line("Added new files to Xcode project", NoName, NoName,
                            Len(files_to_add))>>
    /\ pc' = "done"
    /\ UNCHANGED <<fixed, content, files_to_add, file_refs, build_refs, gi,
                   uuids, nextId, runs, orig, backup0>>

(* --------------------------- starting states --------------------------- *)
Task == <<"Task">>
VoiceDayTask == <<"VoiceDay", "Task">>
Models == <<"Models">>
Services == <<"Services">>
Misc == <<"Misc">>

Filenames == {Task, VoiceDayTask}
TargetGroups == {Models, Services}

\* candidate lists: not empty, distinct file names, as NEW_FILES (lines 12-26) is
CandidateLists ==
    UNION {{s \in [1..n -> Filenames \X TargetGroups] :
               \A i, j \in 1..n : i # j => s[i][1] # s[j][1]} :
           n \in 1..Cardinality(Filenames)}

\* a group block as Xcode writes it: head, isa, children, then name/path
\* c: the name in the head's comment; p: the declared path, NoName for none;
\* fill: characters of further children
GroupShape(c, p, fill) == [c |-> c, p |-> p, fill |-> fill]
GroupShapes ==
    {GroupShape(Models, Models, 0),          \* found by the direct match
     GroupShape(Misc, Models, 0),            \* found by its path only
     GroupShape(Misc, Models, Window - 110), \* the same, "children = (" 1988 characters before the path
     GroupShape(Services, Models, 0),        \* two names, one child list
     GroupShape(Misc, NoName, 0)}            \* found under neither name

GroupBlock(s, n) ==
    <<BlockHead(s.c), Isa("PBXGroup"), ChildrenOpen, GroupChildEntry(2 * n - 1, <<"Old">>),
      GroupChildEntry(2 * n, <<"Older">>)>>
    \o (IF s.fill = 0 THEN <<>> ELSE <<Blob(s.fill)>>)
    \o <<ListClose>>
    \o (IF s.p = NoName THEN <<>> ELSE <<PathDecl(s.p)>>)
    \o <<BlockEnd>>

RECURSIVE GroupBlocks(_, _)
GroupBlocks(shapes, n) ==
    IF shapes = <<>> THEN <<>>
    ELSE GroupBlock(Head(shapes), n) \o GroupBlocks(Tail(shapes), n + 1)

GroupLists == UNION {[1..n -> GroupShapes] : n \in 0..MaxGroups}

FrameworksPhase ==
    <<BlockHead(<<"Frameworks">>), Isa("PBXFrameworksBuildPhase"), FilesOpen, ListClose,
      BlockEnd>>

SourcesPhase ==
    <<BlockHead(<<"Sources">>), Isa("PBXSourcesBuildPhase"), Blob(40), FilesOpen,
      SourcesEntry(2 * MaxGroups + 1, <<"Old">>), ListClose, BlockEnd>>

\* a manifest in the order Xcode writes its sections
Manifest(hasBF, hasFR, old, shapes, hasSources) ==
    (IF hasBF THEN <<BuildFileSection>> ELSE <<>>)
    \o (IF hasFR THEN <<FileRefSection>> ELSE <<>>)
    \o (IF old = NoName THEN <<>> ELSE <<FileRefEntry(2 * MaxGroups + 2, old)>>)
    \o FrameworksPhase
    \o GroupBlocks(shapes, 1)
    \o (IF hasSources THEN SourcesPhase ELSE <<>>)

Manifests ==
    {Manifest(hasBF, hasFR, old, shapes, hasSources) :
        hasBF \in BOOLEAN, hasFR \in BOOLEAN, old \in {NoName} \cup Filenames,
        shapes \in GroupLists, hasSources \in BOOLEAN}

Init ==
    /\ file \in Manifests
    /\ backup = NoFile
    /\ NEW_FILES \in CandidateLists
    /\ pc = "idle"
    /\ content = <<>>
    /\ files_to_add = <<>>
    /\ file_refs = <<>>
    /\ build_refs = <<>>
    /\ gi = 1
    /\ out = <<>>
    /\ uuids = <<>>
    /\ nextId = 2 * MaxGroups + 2
    /\ runs = 0
    /\ entropy = "distinct"
    /\ query = NoName
    /\ found = -1
    /\ orig = file
    /\ backup0 = NoFile

Next ==
    \/ ReadAndFilter
    \/ GenerateUuids
    \/ AddBuildFileEntries
    \/ AddFileRefEntries
    \/ AddToGroup
    \/ AddToSources
    \/ WriteProject

Spec == Init /\ [][Next]_vars

(* ------------------ the identifier generator's draws ------------------- *)
\* add_files on a complete manifest, the random source free to repeat a value
InitIds ==
    /\ file \in {Manifest(TRUE, TRUE, NoName, shapes, TRUE) :
                    shapes \in [1..1 -> GroupShapes]}
    /\ backup = NoFile
    /\ NEW_FILES \in CandidateLists
    /\ pc = "idle"
    /\ content = <<>>
    /\ files_to_add = <<>>
    /\ file_refs = <<>>
    /\ build_refs = <<>>
    /\ gi = 1
    /\ out = <<>>
    /\ uuids = <<>>
    /\ nextId = 2 * MaxGroups + 2
    /\ runs = 0
    /\ entropy \in {"distinct", "any"}
    /\ query = NoName
    /\ found = -1
    /\ orig = file
    /\ backup0 = NoFile

SpecIds == InitIds /\ [][Next]_vars

(* ----------------- find_group_children_location alone ------------------ *)
MaxObjects == 2    \* most objects in a text given to the locator

\* a group block whose keys are written path first: the format (a property
\* list) gives the order of a block's keys no meaning
GroupBlockPathFirst(s, n) ==
    <<BlockHead(s.c), Isa("PBXGroup"), PathDecl(s.p), ChildrenOpen,
      GroupChildEntry(2 * n - 1, <<"Old">>), GroupChildEntry(2 * n, <<"Older">>), ListClose,
      BlockEnd>>

\* the objects a text is made of: group blocks, and a folder's file reference
LocObjects ==
    {GroupBlock(s, 1) : s \in GroupShapes}
    \cup {GroupBlockPathFirst(GroupShape(Models, Models, 0), 2)}
    \cup {<<FileRefEntry(5, Models)>>}

RECURSIVE Flatten(_)
Flatten(ss) == IF ss = <<>> THEN <<>> ELSE Head(ss) \o Flatten(Tail(ss))

LocTexts == {Flatten(objs) : objs \in UNION {[1..n -> LocObjects] : n \in 0..MaxObjects}}

InitLoc ==
    /\ content \in LocTexts
    /\ query \in TargetGroups
    /\ found = -1
    /\ pc = "locate"
    /\ file = <<>>
    /\ backup = NoFile
    /\ NEW_FILES = <<>>
    /\ files_to_add = <<>>
    /\ file_refs = <<>>
    /\ build_refs = <<>>
    /\ gi = 1
    /\ out = <<>>
    /\ uuids = <<>>
    /\ nextId = 5
    /\ runs = 0
    /\ entropy = "distinct"
    /\ orig = <<>>
    /\ backup0 = NoFile

\* one call of find_group_children_location(content, query)
Locate ==
    /\ pc = "locate"
    /\ found' = find_group_children_location(content, query)
    /\ pc' = "located"
    /\ UNCHANGED <<file, backup, NEW_FILES, content, files_to_add, file_refs,
                   build_refs, gi, out, uuids, nextId, runs, entropy, query, orig,
                   backup0>>

NextLoc == Locate

SpecLoc == InitLoc /\ [][NextLoc]_vars

(* ============================== properties ============================= *)
Done == pc = "done"
Printed(line) == \E i \in 1..Len(out) : out[i] = line
Survivors == Names(files_to_add)
\* a token this run made: it names a surviving candidate, and no token of the
\* text read does (the filter found the name nowhere in it)
Inserted(t) == t.f \in Survivors
Occurrences(c, t) == Cardinality({i \in 1..Len(c) : c[i] = t})
Has(c, t) == Occurrences(c, t) > 0
Anchors == {BuildFileSection, FileRefSection, ChildrenOpen, FilesOpen}

\* the run returned early at line 98
ReturnedEarly == Done /\ files_to_add = <<>>
\* the run reached write_project
Wrote == Done /\ files_to_add # <<>>

(* ---- C1 ---- *)
\* C1 (idempotence): when a second or later run with the same candidate list has
\* returned, the manifest equals what it was when that run began, i.e. the output
\* of the run before it.
C1_Idempotent == (Done /\ runs >= 2) => file = orig

\* a second run that skipped a candidate the first run had added
C1_Witness ==
    /\ Done /\ runs = 2
    /\ backup # NoFile /\ backup # file
    /\ \E i \in 1..Len(NEW_FILES) : Printed(SkipLine(NEW_FILES[i]))
    /\ file = orig

(* ---- C3 ---- *)
\* C3 as claimed (backup fidelity after every run): when a run has returned, the
\* backup file holds the manifest as it was when the run began.
C3_BackupEveryRun == Done => backup = orig

\* C3 amended: a run that reaches write_project leaves in the backup file the
\* manifest as it was when the run began; a run that finds every candidate already
\* present returns before write_project and leaves both files as they were.
C3_BackupWhenWritten ==
    /\ Wrote => backup = orig
    /\ ReturnedEarly => (backup = backup0 /\ file = orig)

\* a second run that wrote, over the backup the first run had left
C3_Witness ==
    /\ Wrote /\ runs = 2
    /\ backup0 # NoFile /\ backup # backup0
    /\ backup = orig

(* ---- C5 ---- *)
Strip(c) == SelectSeq(c, LAMBDA t : ~Inserted(t))

\* C5 (byte preservation): from the read on, the buffer with the inserted entries
\* deleted is the text read, token for token; every inserted entry stands behind an
\* anchor or behind another inserted entry; and the manifest written is that buffer.
C5_BytePreserved ==
    /\ pc # "idle" =>
         /\ Strip(content) = orig
         /\ \A i \in 1..Len(content) :
              Inserted(content[i]) =>
                 i > 1 /\ (content[i - 1] \in Anchors \/ Inserted(content[i - 1]))
    /\ Done => (Strip(file) = orig /\ file = content)

\* a run that inserted at all four anchors
C5_Witness ==
    /\ Wrote
    /\ \A k \in {"BuildFile", "FileRef", "Child", "PhaseEntry"} :
         \E i \in 1..Len(file) : file[i].k = k /\ Inserted(file[i])
    /\ Len(file) > Len(orig)

(* ---- records of a candidate ---- *)
BuildFileRecords(c, fn) == {i \in 1..Len(c) : c[i].k = "BuildFile" /\ c[i].f = fn}
FileRefRecords(c, fn) == {i \in 1..Len(c) : c[i].k = "FileRef" /\ c[i].f = fn}
ChildEntries(c, fn) == {i \in 1..Len(c) : c[i].k = "Child" /\ c[i].f = fn}
PhaseEntries(c, fn) == {i \in 1..Len(c) : c[i].k = "PhaseEntry" /\ c[i].f = fn}

AddedToGroup(cand) == Printed(Line("Added to group", cand[1], cand[2], 0))
GroupNotFound(cand) == Printed(Line("Could not find group", cand[1], cand[2], 0))
AddedToSources ==
    Printed(Line("Added files to Sources build phase", NoName, NoName, Len(files_to_add)))
SourcesNotFound == Printed(Line("Could not find Sources build phase", NoName, NoName, 0))
Summary == Line("Added new files to Xcode project", NoName, NoName, Len(files_to_add))

\* the child list a token stands in: the index of the nearest "children = (" before
\* it with no ");" in between, 0 if there is none
ListAt(c, i) ==
    LET opens == {m \in 1..(i - 1) : /\ c[m] = ChildrenOpen
                                     /\ \A x \in (m + 1)..(i - 1) : c[x] # ListClose}
    IN  IF opens = {} THEN 0 ELSE MaxOf(opens)

\* the block a token stands in: from the nearest head before it to the first "};"
\* after it
BlockStart(c, i) == MaxOf({h \in 1..i : c[h].k = "Head"} \cup {0})
BlockStop(c, i) == MinOf({e \in i..Len(c) : c[e] = BlockEnd} \cup {Len(c) + 1})
\* the names of the group whose block token i stands in: the one in its head's
\* comment and the one its path declares
GroupNamesAt(c, i) ==
    {c[x].f : x \in {y \in BlockStart(c, i)..BlockStop(c, i) :
                        y >= 1 /\ y <= Len(c) /\ c[y].k \in {"Head", "Path"}}}

(* ---- C7 ---- *)
\* C7 (no compile-phase anchor): when a run that had candidates to add has returned
\* and the text read holds no block named Sources, the warning was printed, no
\* build-phase entry was inserted, every insertion made before is in the manifest
\* written, the backup holds the text read, and the last line printed is the
\* summary.
C7_MissingPhaseNotFatal ==
    (Wrote /\ ~Has(orig, BlockHead(<<"Sources">>))) =>
        /\ SourcesNotFound /\ ~AddedToSources
        /\ \A fn \in Survivors : PhaseEntries(file, fn) = {}
        /\ \A i \in 1..Len(files_to_add) :
             LET fn == files_to_add[i][1]
             IN  /\ Has(orig, BuildFileSection) => BuildFileRecords(file, fn) # {}
                 /\ Has(orig, FileRefSection) => FileRefRecords(file, fn) # {}
                 /\ AddedToGroup(files_to_add[i]) => ChildEntries(file, fn) # {}
        /\ file = content
        /\ backup = orig
        /\ out[Len(out)] = Summary

\* a run without the anchor that kept records and a group entry
C7_Witness ==
    /\ Wrote /\ ~Has(orig, BlockHead(<<"Sources">>)) /\ SourcesNotFound
    /\ \E i \in 1..Len(files_to_add) :
         /\ AddedToGroup(files_to_add[i])
         /\ ChildEntries(file, files_to_add[i][1]) # {}
         /\ BuildFileRecords(file, files_to_add[i][1]) # {}
         /\ FileRefRecords(file, files_to_add[i][1]) # {}

(* ---- C9 ---- *)
\* the children of the list opened at m
ListOf(c, m) ==
    LET close == MinOf({e \in (m + 1)..(Len(c) + 1) : e = Len(c) + 1 \/ c[e] = ListClose})
    IN  SubSeq(c, m + 1, close - 1)
\* the k-th "children = (" of a text
OpenAt(c, k) ==
    CHOOSE m \in 1..Len(c) :
        /\ c[m] = ChildrenOpen
        /\ Cardinality({x \in 1..m : c[x] = ChildrenOpen}) = k
NumLists(c) == Cardinality({x \in 1..Len(c) : c[x] = ChildrenOpen})

Identifiers ==
    {file_refs[fn] : fn \in DOMAIN file_refs} \cup {build_refs[fn] : fn \in DOMAIN build_refs}
Generated == pc \in {"buildfile", "fileref", "group", "sources", "write"} \/ Wrote

\* C6 as claimed (identifier distinctness): no two values returned by generate_uuid
\* in one run are equal.
C6_AllDistinct ==
    \A i, j \in 1..Len(uuids) : i # j => uuids[i] # uuids[j]

\* C6 amended: generate_uuid compares its result with nothing, so two identifiers of
\* a run are equal exactly when the random source returned one value twice; while
\* it does not, the file-reference and build-action identifiers of the surviving
\* candidates are pairwise different, each being a call's own result.
C6_DistinctUnlessSourceRepeats ==
    Generated =>
        /\ (entropy = "distinct") => Cardinality(Identifiers) = 2 * Len(files_to_add)
        /\ \A i \in 1..Len(files_to_add) :
              /\ file_refs[files_to_add[i][1]] = uuids[2 * i - 1]
              /\ build_refs[files_to_add[i][1]] = uuids[2 * i]
        /\ Len(uuids) = 2 * Len(files_to_add)

\* two candidates, four different identifiers
C6_Witness ==
    /\ Wrote /\ Len(files_to_add) = 2 /\ entropy = "distinct"
    /\ Cardinality(Identifiers) = 4

(* ---- C2 ---- *)
\* C2 as claimed (per-file completeness): after a run, every surviving candidate
\* whose group and the compile phase were found has exactly one build-action record
\* that references its file-reference identifier, exactly one file-reference
\* record, its file-reference identifier exactly once among the group children and
\* its build-action identifier exactly once among the phase's files.
C2_PerFileComplete ==
    Wrote =>
        \A i \in 1..Len(files_to_add) :
            LET fn == files_to_add[i][1]
            IN  (AddedToGroup(files_to_add[i]) /\ AddedToSources) =>
                   /\ Occurrences(file, BuildFileEntry(build_refs[fn], fn, file_refs[fn])) = 1
                   /\ Cardinality(BuildFileRecords(file, fn)) = 1
                   /\ Occurrences(file, FileRefEntry(file_refs[fn], fn)) = 1
                   /\ Cardinality(FileRefRecords(file, fn)) = 1
                   /\ Occurrences(file, GroupChildEntry(file_refs[fn], fn)) = 1
                   /\ Occurrences(file, SourcesEntry(build_refs[fn], fn)) = 1

(* ---- C4 ---- *)
\* C4 as claimed (a missing group): after a run, every surviving candidate whose
\* group was not found has its build-action record and its file-reference record
\* and no group-child entry, the warning was printed, and the loop and the
\* build-phase patch went on to the end.
C4_MissingGroupDegrades ==
    Wrote =>
        \A i \in 1..Len(files_to_add) :
            LET fn == files_to_add[i][1]
            IN  ~AddedToGroup(files_to_add[i]) =>
                   /\ GroupNotFound(files_to_add[i])
                   /\ BuildFileRecords(file, fn) # {}
                   /\ FileRefRecords(file, fn) # {}
                   /\ ChildEntries(file, fn) = {}
                   /\ AddedToSources \/ SourcesNotFound
                   /\ out[Len(out)] = Summary

(* ---- C10 ---- *)
\* C10 as claimed (referential integrity): in the manifest written, every inserted
\* group-child entry has a file-reference record with its identifier, and every
\* inserted build-phase entry has a build-action record with its identifier.
C10_ReferentialIntegrity ==
    Wrote =>
        \A i \in 1..Len(file) :
            /\ (file[i].k = "Child" /\ Inserted(file[i])) =>
                  \E x \in FileRefRecords(file, file[i].f) : file[x].a = file[i].a
            /\ (file[i].k = "PhaseEntry" /\ Inserted(file[i])) =>
                  \E x \in BuildFileRecords(file, file[i].f) : file[x].a = file[i].a

(* ---- C8 ---- *)
\* C8 as claimed (the locator's result): the call returns None, or the offset just
\* behind a "children = (" that stands in the block of a group bearing the name
\* asked for, in its head or as its path.
C8_OwnGroupOrNone ==
    (pc = "located" /\ found # 0) =>
        /\ found \in 1..Len(content)
        /\ content[found] = ChildrenOpen
        /\ query \in GroupNamesAt(content, found)

====
